---- MODULE Spec2Model ----
(***************************************************************************)
(* Model of the habit-analysis backend: backend/analysis.py                *)
(* (main_analysis_pipeline and its helpers), backend/matches.py            *)
(* (analyze_game_fully, get_mistake_type) and the persistence helpers of   *)
(* backend/db_helpers.py they call.                                        *)
(*                                                                         *)
(* Real-valued model coefficients are kept in hundredths (0.1 is 10).      *)
(* Python's None for a habit id is 0 (both are falsy in `if id:`).         *)
(***************************************************************************)
EXTENDS Integers, Sequences, FiniteSets, TLC

\* ---------------------------------------------------------------- bounds
MaxMistakes == 20          \* most mistakes the store holds for the subject
MaxClusters == 2           \* most non-noise clusters the clusterer reports
MaxCpl == 320              \* largest centipawn loss classified in SpecType
MaxPlies == 4              \* plies of the analysed game
MaxRecords == 3            \* most records handed to the distance matrix
MaxRows == 5               \* most rows of a summarised cluster

\* ------------------------------------------------------ program constants
MIN_MISTAKES == 20         \* analysis.py:68
MIN_CLUSTER_SIZE == 5      \* analysis.py:145
MAX_ATTEMPTS == 3          \* analysis.py:277
LAST_RETRY == 2            \* analysis.py:299
TRIGGER_FLOOR == 10        \* analysis.py:318 (0.1, in hundredths)
CPL_BLUNDER == 300         \* matches.py:19
CPL_MISTAKE == 100         \* matches.py:20
CPL_INACCURACY == 50       \* matches.py:21
MATE_SCORE == 10000        \* matches.py:118
NOISE == -1                \* analysis.py:79
TOP_N == 3                 \* analysis.py:376
TACTIC_DIFFERENCE_THRESHOLD == 150   \* matches.py:24
LOWEST_ATTACKER_START == 100         \* matches.py:223
EXPOSED_THRESHOLD == 3               \* matches.py:269
KING_NEIGHBOURS == 8                 \* squares a king attacks at most

VARIABLES
    \* --- durable store (db_helpers)
    habits,            \* persisted habit rows
    links,             \* mistakes.habit_id, 0 = NULL
    nextSerial,        \* next value of habits.id
    opLog,             \* persistence operations of the run, in order
    linkCalls,         \* arguments of every link_mistakes_to_habit call
    \* --- main_analysis_pipeline
    pc,
    all_mistakes,      \* number of rows fetched (ids 1..all_mistakes)
    habit_id,          \* df_clustered['habit_id'] : id -> label
    preprocessor,      \* "unset" | "fitted" | "failed"
    fitCount,          \* calls of preprocessor.fit in this run
    fittedOn,          \* ids of the rows the encoder was fitted on
    feature_names_out, \* get_feature_names_out, as the current cluster got it
    labelOrder,        \* habits_df['habit_id'].unique()
    labelIdx,          \* position of the for loop in labelOrder
    hdbscan_label,
    cluster_df,        \* ids of the current cluster
    control_df,        \* ids of the current control set
    coefficients,      \* model.coef_[0] : feature -> hundredths
    triggers,          \* feature -> coefficient, the significant ones
    attempt,           \* loop variable of _generate_llm_feedback
    sleeps,            \* time.sleep arguments for the current cluster
    llmCalls,          \* text-generation calls for the current cluster
    llm_output,
    new_serial_id,
    lastSave,          \* row handed to save_habit_analysis for this cluster
    new_habit_count,
    result,            \* returned dictionary, <<>> while running
    llmFailures,       \* failed attempts for the current cluster
    invoked,           \* collaborators invoked so far in the run
    \* --- analyze_game_fully
    gpc,
    user_color,        \* "white" | "black" | "none" (not in the headers)
    gameLen,           \* number of mainline moves
    moveIdx,           \* position of the for loop in mainline_moves()
    boardPly,          \* moves on the board's stack: the position reached
    prior_fen,         \* position captured at the top of the iteration
    analysis,          \* result of the multipv=2 request
    best_score,
    user_move_score,   \* NoScore is Python's None
    oracleCalls,       \* engine.analyse calls made for the current ply
    mistakes_list,
    \* --- get_mistake_type on a pair of losses
    tpc, tcpl, ttype, pcpl, ptype,
    \* --- _summarize_cluster_for_llm
    spc,
    summary_df,        \* rows of the cluster handed in, in frame order
    top_counts,        \* column -> value_counts().nlargest(top_n)
    summary,           \* returned dictionary
    \* --- the distance matrix of _run_hdbscan_clustering
    wpc,
    records,           \* df: the fetched records, as a sequence of rows
    df_features,       \* the scaled and stringified copy
    gower_matrix,      \* i -> j -> <<numerator, denominator>>
    \* --- get_mistake_category / is_move_a_hang on one move
    cpc,
    moved_piece,       \* type of board.piece_at(move.from_square), or "none"
    opponent_attackers,\* types of the opponent pieces attacking to_square
    other_defenders,   \* a piece of the mover's side other than the moved
                       \* one attacks to_square
    mover_attacks,     \* the moved piece attacks to_square from from_square
    cat_analysis,      \* scores of the variations in `analysis`
    hang,              \* what is_move_a_hang returned
    category,          \* what get_mistake_category returned
    \* --- get_king_safety for the two kings of one position
    kpc,
    king_turn,         \* board.turn, the subject's colour at the call
    in_check,          \* colour -> that king is attacked
    adjacent_attacked, \* colour -> squares next to that king which the
                       \* other colour attacks
    king_self_safety,
    king_opponent_status

pipeVars == <<habits, links, nextSerial, opLog, linkCalls, pc,
              all_mistakes, habit_id, preprocessor, fitCount, fittedOn,
              labelOrder, labelIdx, hdbscan_label, cluster_df, control_df,
              feature_names_out, coefficients, triggers,
              attempt, sleeps, llmCalls, llmFailures, llm_output, new_serial_id,
              lastSave, new_habit_count, result, invoked>>
gameVars == <<gpc, user_color, gameLen, moveIdx, boardPly, prior_fen, analysis,
              best_score, user_move_score, oracleCalls, mistakes_list>>
typeVars == <<tpc, tcpl, ttype, pcpl, ptype>>
sumVars == <<spc, summary_df, top_counts, summary>>
gowVars == <<wpc, records, df_features, gower_matrix>>
catVars == <<cpc, moved_piece, opponent_attackers, other_defenders,
             mover_attacks, cat_analysis, hang, category>>
kingVars == <<kpc, king_turn, in_check, adjacent_attacked, king_self_safety,
              king_opponent_status>>
pureVars == <<sumVars, gowVars, catVars, kingVars>>
vars == <<pipeVars, gameVars, typeVars, pureVars>>

\* ------------------------------------------------------------- helpers
Ids(n) == 1..n

Truthy(x) == x # 0

RECURSIVE Pow2(_)
Pow2(k) == IF k = 0 THEN 1 ELSE 2 * Pow2(k - 1)

Range(s) == {s[i] : i \in DOMAIN s}

Get(d, k, default) == IF k \in DOMAIN d THEN d[k] ELSE default

\* ------------------------------------------------- feature definitions
\* get_feature_names_out of the fitted encoder: one context level and one
\* action level (CONTEXT_TRIGGERS / ACTION_TRIGGERS prefixes).
FEATURE_NAMES == <<"game_phase_Endgame", "mistake_category_Hanging_Piece">>

\* values a fitted L1 coefficient may take, in hundredths: a negative
\* one, the floor itself and one just above it
CoefValues == {-20, 10, 11}

\* ------------------------------------------- text-generation collaborator
REQUIRED_FIELDS == {"habit_name", "feedback", "tip"}

FALLBACK ==
    [habit_name |-> "LLM Error Fallback",
     feedback |-> "The AI coach could not generate personalized feedback. Please check the API status.",
     tip |-> "Review the cluster manually."]

\* what the service puts in a field it returns
LlmValue(f) ==
    CASE f = "habit_name" -> "Rushed Endgame Trades"
      [] f = "feedback" -> "You tend to trade too early."
      [] OTHER -> "Count attackers before moving."

\* field sets of the JSON objects the service may return: a complete one
\* and one that lacks fields
ReturnedFieldSets == {REQUIRED_FIELDS, {"habit_name"}}

\* outcomes of one client.chat.completions.create call
Responses ==
    {[kind |-> k, fields |-> {}] : k \in {"exception", "no_tool_call", "bad_json", "non_object"}}
    \cup {[kind |-> "object", fields |-> fs] : fs \in ReturnedFieldSets}

\* analysis.py:289-296: the attempt returns exactly when a tool call of the
\* right name is present and json.loads parses its arguments.
AttemptReturns(resp) == resp.kind \in {"object", "non_object"}

\* the value json.loads yields for an object response
ParsedObject(resp) == [f \in resp.fields |-> LlmValue(f)]

\* ---------------------------------------------------- trigger selection
IsSignificantGE(coef) == coef >= TRIGGER_FLOOR

IsSignificant(coef) == coef > TRIGGER_FLOOR

HasNoTriggersNever(trig) == FALSE

\* analysis.py:320
HasNoTriggers(trig) == DOMAIN trig = {}

MayRetryOnce(att) == att < LAST_RETRY - 1

\* analysis.py:299
MayRetry(att) == att < LAST_RETRY

\* analysis.py:318
ExtractTriggers(feature_names, coefs) ==
    LET sig == {i \in DOMAIN feature_names : IsSignificant(coefs[i])}
    IN  [name \in {feature_names[i] : i \in sig} |->
            coefs[CHOOSE i \in sig : feature_names[i] = name]]

\* ----------------------------------------------------------- clustering
\* A labelling reported by the clusterer: k clusters of sz members each
\* (blocks of consecutive ids), the rest noise; block b carries label
\* (b + r) % k, so the label met first varies with r.
Labelling(n, k, sz, r) ==
    [m \in Ids(n) |->
        IF m <= k * sz THEN (((m - 1) \div sz) + r) % k ELSE NOISE]

LayoutSizes(n, k) == {MIN_CLUSTER_SIZE, n \div k}

\* pandas unique(): distinct values in order of first appearance
RECURSIVE UniqueFrom(_, _, _, _)
UniqueFrom(col, m, n, acc) ==
    IF m > n THEN acc
    ELSE IF col[m] = NOISE \/ col[m] \in Range(acc)
         THEN UniqueFrom(col, m + 1, n, acc)
         ELSE UniqueFrom(col, m + 1, n, Append(acc, col[m]))

Unique(col, n) == UniqueFrom(col, 1, n, <<>>)

HabitsDfUnfiltered(col, n) == Ids(n)

\* analysis.py:80
HabitsDf(col, n) == {m \in Ids(n) : col[m] # NOISE}

ClusterDfWholeFrame(col, n, label) == Ids(n)

\* analysis.py:100
ClusterDf(col, n, label) == {m \in HabitsDf(col, n) : col[m] = label}

ControlDfNoiseOnly(col, n, label) == {m \in Ids(n) : col[m] = NOISE}

\* analysis.py:103
ControlDf(col, n, label) == {m \in Ids(n) : col[m] # label}

\* ------------------------------------------------------------- naming
HabitNameNoSuffix(suggested_name, label) == suggested_name

\* analysis.py:344
HabitName(suggested_name, label) ==
    suggested_name \o " (H" \o ToString(label) \o ")"

Result(found, total) == [new_habits_found |-> found, total_mistakes |-> total]

OldHabit ==
    [id |-> 1, hdbscan_label |-> 0, habit_name |-> "Old habit (H0)",
     triggers |-> <<>>, coaching_feedback |-> "old", improvement_tip |-> "old"]

NoResult == [new_habits_found |-> -1, total_mistakes |-> -1]

NoOutput == [f \in {} |-> ""]

NoRow ==
    [id |-> 0, hdbscan_label |-> NOISE, habit_name |-> "", triggers |-> NoOutput,
     coaching_feedback |-> "", improvement_tip |-> ""]

\* ------------------------------------------------------------------ Init
FirstOperationFetch == "fetch"

\* analysis.py:61-63 - the first statement that touches the store
FirstOperation == "clear"

PipeInitWith(stored, prior) ==
    /\ habits = IF prior THEN {OldHabit} ELSE {}
    /\ links = [m \in Ids(stored) |-> IF prior THEN 1 ELSE 0]
    /\ nextSerial = 2
    /\ opLog = <<>>
    /\ linkCalls = <<>>
    /\ pc = FirstOperation
    /\ all_mistakes = 0
    /\ habit_id = <<>>
    /\ preprocessor = "unset"
    /\ fitCount = 0
    /\ fittedOn = {}
    /\ feature_names_out = <<>>
    /\ labelOrder = <<>>
    /\ labelIdx = 1
    /\ hdbscan_label = NOISE
    /\ cluster_df = {}
    /\ control_df = {}
    /\ coefficients = <<>>
    /\ triggers = NoOutput
    /\ attempt = 0
    /\ sleeps = <<>>
    /\ llmCalls = 0
    /\ llmFailures = 0
    /\ llm_output = NoOutput
    /\ new_serial_id = 0
    /\ lastSave = NoRow
    /\ new_habit_count = 0
    /\ result = NoResult
    /\ invoked = {}

\* a store holding some mistakes of the subject, analysed before or not
PipeInit == \E stored \in 0..MaxMistakes, prior \in BOOLEAN :
                PipeInitWith(stored, prior)

PipeIdle == PipeInitWith(0, FALSE)

NoScore == MATE_SCORE + 1

GameInitWith(len) ==
    /\ gpc = "header"
    /\ user_color = "none"
    /\ gameLen = len
    /\ moveIdx = 1
    /\ boardPly = 0
    /\ prior_fen = 0
    /\ analysis = <<>>
    /\ best_score = NoScore
    /\ user_move_score = NoScore
    /\ oracleCalls = 0
    /\ mistakes_list = <<>>

\* a parsed game of up to MaxPlies mainline moves from the initial position
GameInit == \E len \in 0..MaxPlies : GameInitWith(len)

GameIdle == GameInitWith(0)

TypeInitWith(a, b) ==
    /\ tpc = "input"
    /\ pcpl = a
    /\ tcpl = b
    /\ ptype = "unset"
    /\ ttype = "unset"

\* any two centipawn losses
TypeInit == \E a \in 0..MaxCpl, b \in 0..MaxCpl : TypeInitWith(a, b)

TypeIdle == TypeInitWith(0, 0)

\* a value the database left NULL (None / NaN in the frame)
NULL == "<null>"

\* kinds of mistake rows, by the columns the summary reads
RowKinds ==
    {[cpl |-> 320, mistake_type |-> "Blunder", game_phase |-> "Opening",
      piece_moved |-> "PAWN", mistake_category |-> "Missed_Tactic"],
     [cpl |-> 101, mistake_type |-> "Mistake", game_phase |-> "Middlegame",
      piece_moved |-> "KNIGHT", mistake_category |-> "Hanging_Piece"],
     [cpl |-> 50, mistake_type |-> "Inaccuracy", game_phase |-> "Endgame",
      piece_moved |-> "ROOK", mistake_category |-> "Positional_Error"],
     [cpl |-> 300, mistake_type |-> "Blunder", game_phase |-> "Endgame",
      piece_moved |-> "QUEEN", mistake_category |-> "Hanging_Piece"],
     [cpl |-> 100, mistake_type |-> "Mistake", game_phase |-> NULL,
      piece_moved |-> NULL, mistake_category |-> "Positional_Error"]}

NoSummary == [k \in {} |-> 0]

SumInitWith(df) ==
    /\ spc = "input"
    /\ summary_df = df
    /\ top_counts = NoSummary
    /\ summary = NoSummary

\* any cluster the clusterer can report: MIN_CLUSTER_SIZE rows or more
SumInit == \E n \in MIN_CLUSTER_SIZE..MaxRows :
              \E df \in [1..n -> RowKinds] : SumInitWith(df)

SumIdle == SumInitWith(<<>>)

\* analysis.py:28
NUMERIC_COLS == <<"cpl", "move_number">>

\* analysis.py:30-35
CATEGORICAL_COLS ==
    <<"mistake_type", "mistake_category", "game_phase", "material_balance",
      "board_complexity", "king_self_safety", "king_opponent_status",
      "castling_status_self", "piece_moved", "move_type",
      "piece_was_attacked", "piece_was_defended", "piece_was_defending",
      "piece_was_pinned">>

\* categorical parts of a record: the first k columns hold "x" (or are
\* NULL when k is odd), the others "y"
CatPart(k) ==
    [c \in Range(CATEGORICAL_COLS) |->
        LET pos == CHOOSE i \in DOMAIN CATEGORICAL_COLS :
                      CATEGORICAL_COLS[i] = c
        IN  IF pos <= k THEN (IF k % 2 = 1 THEN NULL ELSE "x") ELSE "y"]

CatParts == {CatPart(0), CatPart(7), CatPart(14)}

Record(cpl, move_number, cat) ==
    [c \in Range(NUMERIC_COLS) \cup Range(CATEGORICAL_COLS) |->
        IF c = "cpl" THEN cpl
        ELSE IF c = "move_number" THEN move_number
        ELSE cat[c]]

Records ==
    {Record(cpl, mv, cat) : cpl \in {50, 300}, mv \in {1, 20},
                            cat \in CatParts}

GowInitWith(rows) ==
    /\ wpc = "input"
    /\ records = rows
    /\ df_features = <<>>
    /\ gower_matrix = <<>>

\* any frame of two or more records
GowInit == \E n \in 2..MaxRecords :
              \E rows \in [1..n -> Records] : GowInitWith(rows)

GowIdle == GowInitWith(<<>>)

\* matches.py:26-33
PIECE_VALUES ==
    [PAWN |-> 1, KNIGHT |-> 3, BISHOP |-> 3, ROOK |-> 5, QUEEN |-> 9,
     KING |-> 100]

PieceTypes == DOMAIN PIECE_VALUES

\* scores of the first two variations around the tactic threshold
CatScores == {-1, 0, 150, 151}

CatInitWith(piece, attackers, others, mover, scores) ==
    /\ cpc = "input"
    /\ moved_piece = piece
    /\ opponent_attackers = attackers
    /\ other_defenders = others
    /\ mover_attacks = mover
    /\ cat_analysis = scores
    /\ hang = "unset"
    /\ category = "unset"

\* a move of the game in its position. A knight, bishop, rook or queen
\* attacks the square it moves to; a pawn does when it captures, a king
\* unless it castles; a king never moves to an attacked square.
CatInit ==
    \E piece \in PieceTypes \cup {"none"},
       attackers \in SUBSET {"PAWN", "BISHOP", "ROOK", "QUEEN", "KING"},
       others \in BOOLEAN, mover \in BOOLEAN,
       len \in 1..2 :
       \E scores \in [1..len -> CatScores] :
          /\ piece \in {"KNIGHT", "BISHOP", "ROOK", "QUEEN"} => mover
          /\ piece = "none" => ~mover
          /\ piece = "KING" => attackers = {}
          /\ CatInitWith(piece, attackers, others, mover, scores)

CatIdle == CatInitWith("none", {}, FALSE, FALSE, <<0>>)

Colors == {"white", "black"}

Other(color) == IF color = "white" THEN "black" ELSE "white"

KingInitWith(turn, checked, attacked) ==
    /\ kpc = "input"
    /\ king_turn = turn
    /\ in_check = checked
    /\ adjacent_attacked = attacked
    /\ king_self_safety = "unset"
    /\ king_opponent_status = "unset"

\* a position of a game with the subject to move: only the king of the
\* side to move can be in check
KingInit ==
    \E turn \in Colors, checked \in [Colors -> BOOLEAN],
       attacked \in [Colors -> 0..KING_NEIGHBOURS] :
       /\ ~checked[Other(turn)]
       /\ KingInitWith(turn, checked, attacked)

KingIdle ==
    KingInitWith("white", [c \in Colors |-> FALSE], [c \in Colors |-> 0])

PureIdle == SumIdle /\ GowIdle /\ CatIdle /\ KingIdle

Init == PipeInit /\ GameIdle /\ TypeIdle /\ PureIdle

\* ------------------------------------------------ main_analysis_pipeline
storeVars == <<habits, links, nextSerial, opLog, linkCalls>>
clusterVars == <<hdbscan_label, cluster_df, control_df, feature_names_out,
                 coefficients, triggers,
                 attempt, sleeps, llmCalls, llmFailures, llm_output,
                 new_serial_id, lastSave>>

\* db_helpers.clear_old_habits_and_feedback: the subject's habits are
\* deleted and every mistake becomes pending again
clear_old_habits_and_feedback ==
    /\ habits' = {}
    /\ links' = [m \in DOMAIN links |-> 0]

\* db_helpers.get_all_mistakes_for_user_v6: the pending mistakes, or the
\* empty list when the query fails (as the other fetch helpers do)
get_all_mistakes_for_user_v6(ok) ==
    IF ok THEN Cardinality({m \in DOMAIN links : links[m] = 0}) ELSE 0

\* db_helpers.save_habit_analysis: inserts the row and returns its serial
\* id, or returns None (0) when the insert fails
save_habit_analysis(ok, row) ==
    /\ IF ok
       THEN /\ habits' = habits \cup {row}
            /\ nextSerial' = nextSerial + 1
       ELSE UNCHANGED <<habits, nextSerial>>
    /\ new_serial_id' = row.id

\* analysis.py:63
ClearOldHabitsAndFeedback ==
    /\ pc = "clear"
    /\ clear_old_habits_and_feedback
    /\ opLog' = Append(opLog, "clear")
    /\ pc' = "fetch"
    /\ UNCHANGED <<nextSerial, linkCalls, all_mistakes, habit_id, preprocessor,
                   fitCount, fittedOn, labelOrder, labelIdx, clusterVars,
                   new_habit_count, result, invoked>>

\* analysis.py:66
GetAllMistakes ==
    /\ pc = "fetch"
    /\ \E ok \in BOOLEAN : all_mistakes' = get_all_mistakes_for_user_v6(ok)
    /\ opLog' = Append(opLog, "fetch")
    /\ pc' = "check"
    /\ UNCHANGED <<habits, links, nextSerial, linkCalls, habit_id,
                   preprocessor, fitCount, fittedOn, labelOrder, labelIdx,
                   clusterVars, new_habit_count, result, invoked>>

EnoughMistakesStrict(n) == n > MIN_MISTAKES

\* analysis.py:68
EnoughMistakes(n) == n >= MIN_MISTAKES

\* analysis.py:68-70
ReturnNotEnough ==
    /\ pc = "check"
    /\ ~EnoughMistakes(all_mistakes)
    /\ result' = Result(0, all_mistakes)
    /\ pc' = "done"
    /\ UNCHANGED <<storeVars, all_mistakes, habit_id, preprocessor, fitCount,
                   fittedOn, labelOrder, labelIdx, clusterVars,
                   new_habit_count, invoked>>

\* analysis.py:72-80 - _run_hdbscan_clustering writes the habit_id column
RunHdbscanClustering ==
    /\ pc = "check"
    /\ EnoughMistakes(all_mistakes)
    /\ \E k \in 0..MaxClusters :
          IF k = 0
          THEN habit_id' = [m \in Ids(all_mistakes) |-> NOISE]
          ELSE \E sz \in LayoutSizes(all_mistakes, k), r \in {0, k - 1} :
                  habit_id' = Labelling(all_mistakes, k, sz, r)
    /\ invoked' = invoked \cup {"cluster"}
    /\ pc' = "separate"
    /\ UNCHANGED <<storeVars, all_mistakes, preprocessor, fitCount, fittedOn,
                   labelOrder, labelIdx, clusterVars, new_habit_count, result>>

\* analysis.py:82-84
ReturnOnlyNoise ==
    /\ pc = "separate"
    /\ HabitsDf(habit_id, all_mistakes) = {}
    /\ result' = Result(0, all_mistakes)
    /\ pc' = "done"
    /\ UNCHANGED <<storeVars, all_mistakes, habit_id, preprocessor, fitCount,
                   fittedOn, labelOrder, labelIdx, clusterVars,
                   new_habit_count, invoked>>

FitPopulationHabitsOnly(col, n) == HabitsDf(col, n)

\* analysis.py:91, 161-171 - preprocessor.fit(df[CATEGORICAL_COLS]): the
\* rows are those of the whole fetched frame
FitPopulation(col, n) == Ids(n)

\* analysis.py:202 - the output columns of the encoder, fixed by its fit
get_feature_names_out(fitted_on) ==
    IF fitted_on = {} THEN <<>> ELSE FEATURE_NAMES

PreprocessorUsableAlways(p) == TRUE

\* analysis.py:92 - `if preprocessor is None` is the unusable case
PreprocessorUsable(p) == p = "fitted"

\* analysis.py:91-98 - _create_feature_preprocessor, then the loop header;
\* a fit that raises leaves None (analysis.py:174-176)
CreateFeaturePreprocessor ==
    /\ pc = "separate"
    /\ HabitsDf(habit_id, all_mistakes) # {}
    /\ invoked' = invoked \cup {"fit"}
    /\ fitCount' = fitCount + 1
    /\ \E ok \in BOOLEAN :
          /\ preprocessor' = IF ok THEN "fitted" ELSE "failed"
          /\ fittedOn' = IF ok THEN FitPopulation(habit_id, all_mistakes)
                               ELSE {}
    /\ IF PreprocessorUsable(preprocessor')
       THEN /\ new_habit_count' = 0
            /\ labelOrder' = Unique(habit_id, all_mistakes)
            /\ labelIdx' = 1
            /\ pc' = "loop"
            /\ UNCHANGED result
       ELSE /\ result' = Result(0, all_mistakes)
            /\ pc' = "done"
            /\ UNCHANGED <<new_habit_count, labelOrder, labelIdx>>
    /\ UNCHANGED <<storeVars, all_mistakes, habit_id, clusterVars>>

\* the locals of one loop iteration, as they are before the iteration
ClusterLocalsCleared ==
    /\ hdbscan_label' = NOISE
    /\ cluster_df' = {}
    /\ control_df' = {}
    /\ feature_names_out' = <<>>
    /\ coefficients' = <<>>
    /\ triggers' = NoOutput
    /\ attempt' = 0
    /\ sleeps' = <<>>
    /\ llmCalls' = 0
    /\ llmFailures' = 0
    /\ llm_output' = NoOutput
    /\ new_serial_id' = 0
    /\ lastSave' = NoRow

\* `continue` / end of the loop body: on to the next label
Continue ==
    /\ labelIdx' = labelIdx + 1
    /\ pc' = "loop"
    /\ ClusterLocalsCleared

\* analysis.py:98-103 - next label of the for loop, cluster and control set
NextCluster ==
    /\ pc = "loop"
    /\ labelIdx <= Len(labelOrder)
    /\ hdbscan_label' = labelOrder[labelIdx]
    /\ cluster_df' = ClusterDf(habit_id, all_mistakes, labelOrder[labelIdx])
    /\ control_df' = ControlDf(habit_id, all_mistakes, labelOrder[labelIdx])
    /\ feature_names_out' = <<>>
    /\ coefficients' = <<>>
    /\ triggers' = NoOutput
    /\ attempt' = 0
    /\ sleeps' = <<>>
    /\ llmCalls' = 0
    /\ llmFailures' = 0
    /\ llm_output' = NoOutput
    /\ new_serial_id' = 0
    /\ lastSave' = NoRow
    /\ pc' = "find"
    /\ UNCHANGED <<storeVars, all_mistakes, habit_id, preprocessor, fitCount,
                   fittedOn, labelOrder, labelIdx, new_habit_count, result,
                   invoked>>

\* analysis.py:121-122 - the loop is exhausted
ReturnComplete ==
    /\ pc = "loop"
    /\ labelIdx > Len(labelOrder)
    /\ result' = Result(new_habit_count, all_mistakes)
    /\ pc' = "done"
    /\ UNCHANGED <<storeVars, all_mistakes, habit_id, preprocessor, fitCount,
                   fittedOn, labelOrder, labelIdx, clusterVars,
                   new_habit_count, invoked>>

\* analysis.py:185-187, 107-108 - empty control set: no model, next cluster
FindTriggersNoControl ==
    /\ pc = "find"
    /\ control_df = {}
    /\ Continue
    /\ UNCHANGED <<storeVars, all_mistakes, habit_id, preprocessor, fitCount,
                   fittedOn, labelOrder, new_habit_count, result, invoked>>

\* analysis.py:195-199, 107-108 - preprocessor.transform raises
FindTriggersTransformFails ==
    /\ pc = "find"
    /\ control_df # {}
    /\ invoked' = invoked \cup {"transform"}
    /\ Continue
    /\ UNCHANGED <<storeVars, all_mistakes, habit_id, preprocessor, fitCount,
                   fittedOn, labelOrder, new_habit_count, result>>

\* analysis.py:189-213 - the rows are encoded by the shared encoder (an
\* encoder that is None cannot encode) and the classifier is fitted
FindTriggersFit ==
    /\ pc = "find"
    /\ control_df # {}
    /\ preprocessor = "fitted"
    /\ invoked' = invoked \cup {"transform", "train"}
    /\ feature_names_out' = get_feature_names_out(fittedOn)
    /\ \E coefs \in [DOMAIN get_feature_names_out(fittedOn) -> CoefValues] :
          coefficients' = coefs
    /\ pc' = "extract"
    /\ UNCHANGED <<storeVars, all_mistakes, habit_id, preprocessor, fitCount,
                   fittedOn, labelOrder, labelIdx, hdbscan_label, cluster_df,
                   control_df, triggers, attempt, sleeps, llmCalls,
                   llmFailures, llm_output, new_serial_id, lastSave,
                   new_habit_count, result>>

\* analysis.py:316-322, 115 - trigger selection; no trigger returns None
SelectTriggers ==
    /\ pc = "extract"
    /\ LET selected == ExtractTriggers(feature_names_out, coefficients)
       IN  IF HasNoTriggers(selected)
           THEN Continue
           ELSE /\ triggers' = selected
                /\ pc' = "llm"
                /\ UNCHANGED <<labelIdx, hdbscan_label, cluster_df, control_df,
                               feature_names_out, coefficients, attempt,
                               sleeps, llmCalls, llmFailures, llm_output,
                               new_serial_id, lastSave>>
    /\ UNCHANGED <<storeVars, all_mistakes, habit_id, preprocessor, fitCount,
                   fittedOn, labelOrder, new_habit_count, result, invoked>>

\* analysis.py:277-309 - one iteration of the retry loop; a parsed value
\* that is no JSON object makes llm_output.get raise at analysis.py:341
GenerateLlmFeedbackAttempt ==
    /\ pc = "llm"
    /\ attempt < MAX_ATTEMPTS
    /\ llmCalls' = llmCalls + 1
    /\ invoked' = invoked \cup {"llm"}
    /\ \E resp \in Responses :
          IF AttemptReturns(resp)
          THEN /\ IF resp.kind = "object"
                  THEN llm_output' = ParsedObject(resp) /\ pc' = "save"
                  ELSE llm_output' = NoOutput /\ pc' = "raised"
               /\ UNCHANGED <<attempt, sleeps, llmFailures>>
          ELSE /\ llmFailures' = llmFailures + 1
               /\ IF MayRetry(attempt)
                  THEN /\ sleeps' = Append(sleeps, Pow2(attempt))
                       /\ attempt' = attempt + 1
                       /\ pc' = "llm"
                       /\ UNCHANGED llm_output
                  ELSE /\ llm_output' = FALLBACK
                       /\ pc' = "save"
                       /\ UNCHANGED <<attempt, sleeps>>
    /\ UNCHANGED <<storeVars, all_mistakes, habit_id, preprocessor, fitCount,
                   fittedOn, labelOrder, labelIdx, hdbscan_label, cluster_df,
                   control_df, feature_names_out, coefficients, triggers,
                   new_serial_id, lastSave, new_habit_count, result>>

\* analysis.py:340-347 - the row handed to save_habit_analysis
HabitRow(id, label, out, trig) ==
    [id |-> id,
     hdbscan_label |-> label,
     habit_name |-> HabitName(Get(out, "habit_name", "Unnamed Habit"), label),
     triggers |-> trig,
     coaching_feedback |-> Get(out, "feedback", "No detailed feedback generated."),
     improvement_tip |-> Get(out, "tip", "No specific tip provided.")]

\* analysis.py:340-363
SaveHabitAnalysis ==
    /\ pc = "save"
    /\ invoked' = invoked \cup {"save"}
    /\ opLog' = Append(opLog, "save")
    /\ \E ok \in BOOLEAN :
          LET row == HabitRow(IF ok THEN nextSerial ELSE 0, hdbscan_label,
                              llm_output, triggers)
          IN  /\ lastSave' = row
              /\ save_habit_analysis(ok, row)
    /\ pc' = "afterSave"
    /\ UNCHANGED <<links, linkCalls, all_mistakes, habit_id, preprocessor,
                   fitCount, fittedOn, labelOrder, labelIdx, hdbscan_label,
                   cluster_df, control_df, feature_names_out, coefficients,
                   triggers, attempt, sleeps, llmCalls, llmFailures,
                   llm_output, new_habit_count, result>>

ShouldLinkAlways(id) == TRUE

\* analysis.py:115
ShouldLink(id) == Truthy(id)

\* db_helpers.py:149-172 - nothing to do for an empty list; a failing
\* UPDATE (also one naming a habit that does not exist) is printed and
\* swallowed
link_mistakes_to_habit(ok, id, list_of_mistake_ids) ==
    IF ok /\ list_of_mistake_ids # {} /\ id \in {h.id : h \in habits}
    THEN links' = [m \in DOMAIN links |->
                      IF m \in list_of_mistake_ids THEN id ELSE links[m]]
    ELSE UNCHANGED links

\* analysis.py:115-119 - the habit is counted whether or not the UPDATE
\* went through
LinkMistakesToHabit ==
    /\ pc = "afterSave"
    /\ ShouldLink(new_serial_id)
    /\ linkCalls' = Append(linkCalls, [habit_id |-> new_serial_id,
                                       mistake_ids |-> cluster_df])
    /\ invoked' = invoked \cup {"link"}
    /\ opLog' = Append(opLog, "link")
    /\ \E ok \in BOOLEAN : link_mistakes_to_habit(ok, new_serial_id, cluster_df)
    /\ new_habit_count' = new_habit_count + 1
    /\ Continue
    /\ UNCHANGED <<habits, nextSerial, all_mistakes, habit_id, preprocessor,
                   fitCount, fittedOn, labelOrder, result>>

SkipLinkAborts ==
    /\ pc = "afterSave"
    /\ ~ShouldLink(new_serial_id)
    /\ result' = Result(new_habit_count, all_mistakes)
    /\ pc' = "done"
    /\ UNCHANGED <<storeVars, all_mistakes, habit_id, preprocessor, fitCount,
                   fittedOn, labelOrder, labelIdx, clusterVars,
                   new_habit_count, invoked>>

\* analysis.py:115 - no id came back: neither linked nor counted
SkipLink ==
    /\ pc = "afterSave"
    /\ ~ShouldLink(new_serial_id)
    /\ Continue
    /\ UNCHANGED <<storeVars, all_mistakes, habit_id, preprocessor, fitCount,
                   fittedOn, labelOrder, new_habit_count, result, invoked>>

PipeNext ==
    \/ ClearOldHabitsAndFeedback
    \/ GetAllMistakes
    \/ ReturnNotEnough
    \/ RunHdbscanClustering
    \/ ReturnOnlyNoise
    \/ CreateFeaturePreprocessor
    \/ NextCluster
    \/ ReturnComplete
    \/ FindTriggersNoControl
    \/ FindTriggersTransformFails
    \/ FindTriggersFit
    \/ SelectTriggers
    \/ GenerateLlmFeedbackAttempt
    \/ SaveHabitAnalysis
    \/ LinkMistakesToHabit
    \/ SkipLink

Next == PipeNext /\ UNCHANGED <<gameVars, typeVars, pureVars>>

Spec == Init /\ [][Next]_vars

\* ------------------------------------------------------ get_mistake_type
get_mistake_type_exclusive(cpl) ==
    IF cpl > CPL_BLUNDER THEN "Blunder"
    ELSE IF cpl > CPL_MISTAKE THEN "Mistake"
    ELSE IF cpl > CPL_INACCURACY THEN "Inaccuracy"
    ELSE "Good"

\* matches.py:178-182
get_mistake_type(cpl) ==
    IF cpl >= CPL_BLUNDER THEN "Blunder"
    ELSE IF cpl >= CPL_MISTAKE THEN "Mistake"
    ELSE IF cpl >= CPL_INACCURACY THEN "Inaccuracy"
    ELSE "Good"

\* two calls of get_mistake_type
ClassifyPair ==
    /\ tpc = "input"
    /\ ptype' = get_mistake_type(pcpl)
    /\ ttype' = get_mistake_type(tcpl)
    /\ tpc' = "classified"
    /\ UNCHANGED <<pcpl, tcpl>>

TypeNext == ClassifyPair /\ UNCHANGED <<pipeVars, gameVars, pureVars>>

InitType == PipeIdle /\ GameIdle /\ TypeInit /\ PureIdle

SpecType == InitType /\ [][TypeNext]_vars

\* ---------------------------------------------------- analyze_game_fully
\* relative scores the oracle reports, after score(mate_score=10000)
ScoreSet == {1 - MATE_SCORE, -150, -50, 0, 49, 50, 149, 150, MATE_SCORE - 1}

\* one entry of a multipv result: has_pv - a non-empty 'pv' is present;
\* is_move - pv[0] is the move played
AnalysisEntries ==
    {[has_pv |-> FALSE, is_move |-> FALSE, score |-> 0]}
    \cup {[has_pv |-> TRUE, is_move |-> b, score |-> sc] :
             b \in BOOLEAN, sc \in ScoreSet}

\* what engine.analyse(board, limit, multipv=2) leaves in `analysis`;
\* an exception leaves None, which is <<>> here (both are falsy)
AnalysisResults ==
    {<<>>} \cup {<<e>> : e \in AnalysisEntries}
    \cup {<<e1, e2>> : e1 \in AnalysisEntries, e2 \in AnalysisEntries}

\* matches.py:109
Usable(a) == Len(a) > 0 /\ a[1].has_pv

\* matches.py:120-126 - score of the first line that starts with the move
RECURSIVE ScoreOfMoveFrom(_, _)
ScoreOfMoveFrom(a, i) ==
    IF i > Len(a) THEN NoScore
    ELSE IF a[i].has_pv /\ a[i].is_move THEN a[i].score
    ELSE ScoreOfMoveFrom(a, i + 1)

ScoreOfMove(a) == ScoreOfMoveFrom(a, 1)

Turn(ply) == IF ply % 2 = 0 THEN "white" ELSE "black"

FullMoveNumber(ply) == (ply \div 2) + 1

Max(a, b) == IF a >= b THEN a ELSE b

CentipawnLossAbs(best, played) == Max(played - best, best - played)

\* matches.py:140
CentipawnLoss(best, played) == Max(0, best - played)

\* matches.py:143
IsRecorded(mistake_type) == mistake_type # "Good"

\* the board as the feature functions see it: the position after `ply`
\* mainline moves, with the piece that is about to move on its square
Position(ply) == [ply |-> ply, from_square_empty |-> FALSE]

\* matches.py:318
remove_piece_at(board) == [board EXCEPT !.from_square_empty = TRUE]

\* matches.py:328
set_piece_at(board) == [board EXCEPT !.from_square_empty = FALSE]

\* matches.py:312-329 - the board is_piece_defending leaves behind; the
\* break at :324 leaves only the for loop, so :328 always runs
is_piece_defending(board) == set_piece_at(remove_piece_at(board))

\* matches.py:148-169 - the fields that do not depend on the mistake's
\* features, the board the feature functions of :155-166 read, and the
\* board is_pinned reads at :168, after is_piece_defending at :167
MistakeData(ply, prior, color, cpl, mistake_type) ==
    [move_number |-> FullMoveNumber(ply),
     player_color |-> color,
     prior_fen |-> prior,
     cpl |-> cpl,
     mistake_type |-> mistake_type,
     features_on |-> Position(ply),
     pinned_on |-> is_piece_defending(Position(ply))]

PopNothing(ply) == ply

\* matches.py:138 - board.pop()
Pop(ply) == ply - 1

plyLocals == <<analysis, best_score, user_move_score>>

\* board.push(move) at matches.py:172 (or :97), then the next iteration,
\* which starts without the previous ply's analysis
PushAndAdvance ==
    /\ boardPly' = boardPly + 1
    /\ moveIdx' = moveIdx + 1
    /\ analysis' = <<>>
    /\ best_score' = NoScore
    /\ user_move_score' = NoScore
    /\ gpc' = "ply"

\* matches.py:78-87
ResolveUserColor ==
    /\ gpc = "header"
    /\ \E c \in {"white", "black", "none"} :
          /\ user_color' = c
          /\ gpc' = IF c = "none" THEN "done" ELSE "ply"
    /\ UNCHANGED <<gameLen, moveIdx, boardPly, prior_fen, plyLocals,
                   oracleCalls, mistakes_list>>

\* matches.py:89-93, 172 - the opponent is to move
PlyOpponentTurn ==
    /\ gpc = "ply"
    /\ moveIdx <= gameLen
    /\ Turn(boardPly) # user_color
    /\ prior_fen' = boardPly
    /\ oracleCalls' = 0
    /\ PushAndAdvance
    /\ UNCHANGED <<user_color, gameLen, mistakes_list>>

\* matches.py:95-98 - the position is already decided
PlyGameOver ==
    /\ gpc = "ply"
    /\ moveIdx <= gameLen
    /\ Turn(boardPly) = user_color
    /\ prior_fen' = boardPly
    /\ oracleCalls' = 0
    /\ PushAndAdvance
    /\ UNCHANGED <<user_color, gameLen, mistakes_list>>

\* matches.py:100-110, 172 - the top-2 request gives no usable line
PlyNoValidAnalysis ==
    /\ gpc = "ply"
    /\ moveIdx <= gameLen
    /\ Turn(boardPly) = user_color
    /\ prior_fen' = boardPly
    /\ oracleCalls' = 1
    /\ \E a \in AnalysisResults : ~Usable(a)
    /\ PushAndAdvance
    /\ UNCHANGED <<user_color, gameLen, mistakes_list>>

\* matches.py:100-128 - the top-2 request succeeds
PlyAnalysed ==
    /\ gpc = "ply"
    /\ moveIdx <= gameLen
    /\ Turn(boardPly) = user_color
    /\ prior_fen' = boardPly
    /\ oracleCalls' = 1
    /\ \E a \in AnalysisResults :
          /\ Usable(a)
          /\ analysis' = a
          /\ best_score' = a[1].score
          /\ user_move_score' = ScoreOfMove(a)
          /\ gpc' = IF ScoreOfMove(a) = NoScore THEN "reeval" ELSE "classify"
    /\ UNCHANGED <<user_color, gameLen, moveIdx, boardPly, mistakes_list>>

\* matches.py:130 - the move is played on the board for its own evaluation
ReevalPush ==
    /\ gpc = "reeval"
    /\ boardPly' = boardPly + 1
    /\ gpc' = "reevalPushed"
    /\ UNCHANGED <<user_color, gameLen, moveIdx, prior_fen, plyLocals,
                   oracleCalls, mistakes_list>>

\* matches.py:131-138 - single-variation request outside any try block:
\* an engine error leaves the function; otherwise the score is negated
\* (both branches of is_mate negate) and the move is taken back
ReevalAnalyse ==
    /\ gpc = "reevalPushed"
    /\ oracleCalls' = oracleCalls + 1
    /\ \/ /\ gpc' = "raised"
          /\ UNCHANGED <<boardPly, user_move_score>>
       \/ \E sc \in ScoreSet :
             /\ user_move_score' = -sc
             /\ boardPly' = Pop(boardPly)
             /\ gpc' = "classify"
    /\ UNCHANGED <<user_color, gameLen, moveIdx, prior_fen, analysis,
                   best_score, mistakes_list>>

\* matches.py:140-172 - loss, classification, record, push
ClassifyMove ==
    /\ gpc = "classify"
    /\ LET cpl == CentipawnLoss(best_score, user_move_score)
           mistake_type == get_mistake_type(cpl)
       IN  mistakes_list' =
              IF IsRecorded(mistake_type)
              THEN Append(mistakes_list,
                          MistakeData(boardPly, prior_fen, user_color, cpl,
                                      mistake_type))
              ELSE mistakes_list
    /\ PushAndAdvance
    /\ UNCHANGED <<user_color, gameLen, prior_fen, oracleCalls>>

\* matches.py:174
ReturnMistakes ==
    /\ gpc = "ply"
    /\ moveIdx > gameLen
    /\ gpc' = "done"
    /\ UNCHANGED <<user_color, gameLen, moveIdx, boardPly, prior_fen,
                   plyLocals, oracleCalls, mistakes_list>>

GameNext ==
    /\ \/ ResolveUserColor
       \/ PlyOpponentTurn
       \/ PlyGameOver
       \/ PlyNoValidAnalysis
       \/ PlyAnalysed
       \/ ReevalPush
       \/ ReevalAnalyse
       \/ ClassifyMove
       \/ ReturnMistakes
    /\ UNCHANGED <<pipeVars, typeVars, pureVars>>

InitGame == PipeIdle /\ GameInit /\ TypeIdle /\ PureIdle

SpecGame == InitGame /\ [][GameNext]_vars

\* ------------------------------------------- _summarize_cluster_for_llm
\* analysis.py:377
SUMMARY_COLUMNS ==
    <<"mistake_type", "game_phase", "piece_moved", "mistake_category">>

Min(a, b) == IF a < b THEN a ELSE b

\* cluster_df[col]
Column(df, col) == [i \in DOMAIN df |-> df[i][col]]

\* the distinct non-null values of a column, in order of first appearance
RECURSIVE SeenFrom(_, _, _)
SeenFrom(column, i, acc) ==
    IF i > Len(column) THEN acc
    ELSE IF column[i] = NULL \/ column[i] \in Range(acc)
         THEN SeenFrom(column, i + 1, acc)
         ELSE SeenFrom(column, i + 1, Append(acc, column[i]))

CountOf(column, v) == Cardinality({i \in DOMAIN column : column[i] = v})

\* stable insertion into a series ordered by count, largest first
RECURSIVE InsertDescending(_, _)
InsertDescending(sorted, e) ==
    IF sorted = <<>> THEN <<e>>
    ELSE IF Head(sorted).count >= e.count
         THEN <<Head(sorted)>> \o InsertDescending(Tail(sorted), e)
         ELSE <<e>> \o sorted

RECURSIVE SortDescending(_)
SortDescending(series) ==
    IF series = <<>> THEN <<>>
    ELSE InsertDescending(SortDescending(SubSeq(series, 1, Len(series) - 1)),
                          series[Len(series)])

\* analysis.py:378 - Series.value_counts(): nulls dropped, one entry per
\* value, most frequent first
value_counts(column) ==
    LET seen == SeenFrom(column, 1, <<>>)
    IN  SortDescending([i \in DOMAIN seen |->
                          [val |-> seen[i], count |-> CountOf(column, seen[i])]])

nlargest_all(series, n) == SortDescending(series)

\* analysis.py:378 - Series.nlargest(n): the n largest, largest first
nlargest(series, n) ==
    SubSeq(SortDescending(series), 1, Min(n, Len(series)))

\* analysis.py:379-382 - f"{val} ({count})"
EntryText(e) == e.val \o " (" \o ToString(e.count) \o ")"

RECURSIVE SumOf(_)
SumOf(column) ==
    IF column = <<>> THEN 0 ELSE Head(column) + SumOf(Tail(column))

\* analysis.py:372 - f"{mean:.0f}": the mean rounded to an integer, a tie
\* going to the even neighbour
MeanText(column) ==
    LET n == Len(column)
        q == SumOf(column) \div n
        r == SumOf(column) % n
        rounded == IF 2 * r < n THEN q
                   ELSE IF 2 * r > n THEN q + 1
                   ELSE IF q % 2 = 0 THEN q ELSE q + 1
    IN  ToString(rounded)

\* analysis.py:373
MaxText(column) ==
    ToString(CHOOSE v \in Range(column) : \A w \in Range(column) : w <= v)

\* analysis.py:365-384
SummarizeClusterForLlm ==
    /\ spc = "input"
    /\ LET counts == [col \in Range(SUMMARY_COLUMNS) |->
                        nlargest(value_counts(Column(summary_df, col)), TOP_N)]
           Texts(col) == [i \in DOMAIN counts[col] |-> EntryText(counts[col][i])]
       IN  /\ top_counts' = counts
           /\ summary' =
                 [total_mistakes_in_habit |-> Len(summary_df),
                  avg_cpl |-> MeanText(Column(summary_df, "cpl")),
                  most_severe_cpl |-> MaxText(Column(summary_df, "cpl")),
                  top_mistake_type |-> Texts("mistake_type"),
                  top_game_phase |-> Texts("game_phase"),
                  top_piece_moved |-> Texts("piece_moved"),
                  top_mistake_category |-> Texts("mistake_category")]
    /\ spc' = "summarized"
    /\ UNCHANGED summary_df

SummaryNext ==
    /\ SummarizeClusterForLlm
    /\ UNCHANGED <<pipeVars, gameVars, typeVars, gowVars, catVars, kingVars>>

InitSummary ==
    /\ PipeIdle /\ GameIdle /\ TypeIdle
    /\ SumInit /\ GowIdle /\ CatIdle /\ KingIdle

SpecSummary == InitSummary /\ [][SummaryNext]_vars

\* ----------------------------------- _run_hdbscan_clustering: distances
Abs(x) == IF x < 0 THEN -x ELSE x

\* analysis.py:132-133 - StandardScaler: (x - mean) / std over the column.
\* The value kept is n * std * z = n * x - sum(x): every scaled value of
\* a column times the same positive number, which the matrix below (a
\* ratio of differences of one column) does not see. A column of equal
\* values is scaled to zeros.
StandardScaled(rows, col) ==
    LET column == [i \in DOMAIN rows |-> rows[i][col]]
    IN  [i \in DOMAIN rows |-> Len(rows) * column[i] - SumOf(column)]

\* analysis.py:135-136 - astype(str) writes None as the text 'None'
AsStr(v) == IF v = NULL THEN "None" ELSE v

\* analysis.py:130-136
DfFeatures(rows) ==
    [i \in DOMAIN rows |->
        [c \in DOMAIN rows[i] |->
            IF c \in Range(NUMERIC_COLS) THEN StandardScaled(rows, c)[i]
            ELSE AsStr(rows[i][c])]]

ColMax(X, c) == CHOOSE v \in {X[i][c] : i \in DOMAIN X} :
                   \A i \in DOMAIN X : X[i][c] <= v

ColMin(X, c) == CHOOSE v \in {X[i][c] : i \in DOMAIN X} :
                   \A i \in DOMAIN X : X[i][c] >= v

NumericTermByMax(X, c, i, j) ==
    LET max == ColMax(X, c)
    IN  IF max = 0 THEN <<0, 1>>
        ELSE <<Abs(X[i][c] - X[j][c]), Abs(max)>>

\* gower.gower_matrix on a numeric column: the values are divided by the
\* column maximum, the range is |1 - min/max|, and the term is the
\* absolute difference over the range; a zero maximum or range gives 0.
\* The term is the fraction <<numerator, denominator>>, with the factor
\* |max| common to both already cancelled.
NumericTerm(X, c, i, j) ==
    LET max == ColMax(X, c)
        min == ColMin(X, c)
    IN  IF max = 0 \/ max = min THEN <<0, 1>>
        ELSE <<Abs(X[i][c] - X[j][c]), Abs(max - min)>>

\* gower.gower_matrix on the categorical columns: 1 per column that differs
Mismatches(X, i, j) ==
    Cardinality({c \in Range(CATEGORICAL_COLS) : X[i][c] # X[j][c]})

\* one entry: the unweighted mean of the terms of all columns
GowerEntry(X, i, j) ==
    LET a == NumericTerm(X, NUMERIC_COLS[1], i, j)
        b == NumericTerm(X, NUMERIC_COLS[2], i, j)
        cols == Len(NUMERIC_COLS) + Len(CATEGORICAL_COLS)
    IN  <<a[1] * b[2] + b[1] * a[2] + Mismatches(X, i, j) * a[2] * b[2],
          cols * a[2] * b[2]>>

\* analysis.py:139 - gower.gower_matrix(X): row i is computed against the
\* rows from i on and written to row i and to column i
GowerMatrix(X) ==
    [i \in DOMAIN X |->
        [j \in DOMAIN X |-> GowerEntry(X, Min(i, j), Max(i, j))]]

\* analysis.py:126-140
ComputeGowerMatrix ==
    /\ wpc = "input"
    /\ df_features' = DfFeatures(records)
    /\ gower_matrix' = GowerMatrix(DfFeatures(records))
    /\ wpc' = "computed"
    /\ UNCHANGED records

GowerNext ==
    /\ ComputeGowerMatrix
    /\ UNCHANGED <<pipeVars, gameVars, typeVars, sumVars, catVars, kingVars>>

InitGower ==
    /\ PipeIdle /\ GameIdle /\ TypeIdle
    /\ SumIdle /\ GowInit /\ CatIdle /\ KingIdle

SpecGower == InitGower /\ [][GowerNext]_vars

\* ------------------------------- get_mistake_category / is_move_a_hang
\* board.attackers(user_color, to_square) on the position before the
\* move: every piece of the mover's side attacking the square, the piece
\* about to move included
OurDefenders(others, mover) ==
    (IF others THEN {"other"} ELSE {}) \cup (IF mover THEN {"moved"} ELSE {})

\* matches.py:223-227
LowestAttackerValue(attackers) ==
    CHOOSE v \in {LOWEST_ATTACKER_START} \cup {PIECE_VALUES[a] : a \in attackers} :
       \A a \in attackers : v <= PIECE_VALUES[a]

\* matches.py:202-232
is_move_a_hang(piece, attackers, others, mover) ==
    IF piece = "none" THEN FALSE
    ELSE IF attackers = {} THEN FALSE
    ELSE IF OurDefenders(others, mover) = {} THEN TRUE
    ELSE PIECE_VALUES[piece] > LowestAttackerValue(attackers)

IsMissedTacticGE(scores) ==
    /\ Len(scores) > 1
    /\ scores[1] - scores[2] >= TACTIC_DIFFERENCE_THRESHOLD

\* matches.py:189-193
IsMissedTactic(scores) ==
    /\ Len(scores) > 1
    /\ scores[1] - scores[2] > TACTIC_DIFFERENCE_THRESHOLD

\* matches.py:184-200
get_mistake_category(scores, piece, attackers, others, mover) ==
    IF IsMissedTactic(scores) THEN "Missed_Tactic"
    ELSE IF is_move_a_hang(piece, attackers, others, mover)
         THEN "Hanging_Piece"
         ELSE "Positional_Error"

\* a call of is_move_a_hang
IsMoveAHang ==
    /\ cpc = "input"
    /\ hang' = is_move_a_hang(moved_piece, opponent_attackers,
                              other_defenders, mover_attacks)
    /\ cpc' = "hang"
    /\ UNCHANGED <<moved_piece, opponent_attackers, other_defenders,
                   mover_attacks, cat_analysis, category>>

\* a call of get_mistake_category for the same move
GetMistakeCategory ==
    /\ cpc = "hang"
    /\ category' = get_mistake_category(cat_analysis, moved_piece,
                                        opponent_attackers, other_defenders,
                                        mover_attacks)
    /\ cpc' = "categorised"
    /\ UNCHANGED <<moved_piece, opponent_attackers, other_defenders,
                   mover_attacks, cat_analysis, hang>>

CategoryNext ==
    /\ (IsMoveAHang \/ GetMistakeCategory)
    /\ UNCHANGED <<pipeVars, gameVars, typeVars, sumVars, gowVars, kingVars>>

InitCategory ==
    /\ PipeIdle /\ GameIdle /\ TypeIdle
    /\ SumIdle /\ GowIdle /\ CatInit /\ KingIdle

SpecCategory == InitCategory /\ [][CategoryNext]_vars

\* ------------------------------------------------------ get_king_safety
\* matches.py:257 - board.is_check(): the king of the side to move is
\* attacked; the colour asked about plays no part in it
BoardIsCheck(turn, checked) == checked[turn]

\* matches.py:255-272
get_king_safety(turn, checked, attacked, color) ==
    IF BoardIsCheck(turn, checked) THEN "In_Check"
    ELSE IF attacked[color] > EXPOSED_THRESHOLD THEN "Exposed"
    ELSE "Safe"

\* matches.py:160 - get_king_safety(board, user_color)
KingSelfSafety ==
    /\ kpc = "input"
    /\ king_self_safety' =
          get_king_safety(king_turn, in_check, adjacent_attacked, king_turn)
    /\ kpc' = "self"
    /\ UNCHANGED <<king_turn, in_check, adjacent_attacked,
                   king_opponent_status>>

\* matches.py:161 - get_king_safety(board, not user_color)
KingOpponentStatus ==
    /\ kpc = "self"
    /\ king_opponent_status' =
          get_king_safety(king_turn, in_check, adjacent_attacked,
                          Other(king_turn))
    /\ kpc' = "both"
    /\ UNCHANGED <<king_turn, in_check, adjacent_attacked, king_self_safety>>

KingNext ==
    /\ (KingSelfSafety \/ KingOpponentStatus)
    /\ UNCHANGED <<pipeVars, gameVars, typeVars, sumVars, gowVars, catVars>>

InitKing ==
    /\ PipeIdle /\ GameIdle /\ TypeIdle
    /\ SumIdle /\ GowIdle /\ CatIdle /\ KingInit

SpecKing == InitKing /\ [][KingNext]_vars

\* ===================================================================
\* Properties
\* ===================================================================
HabitIds == {h.id : h \in habits}

InCluster == pc \in {"find", "extract", "llm", "save", "afterSave"}

\* C1: every link_mistakes_to_habit call carries the id of a habit that
\* save_habit_analysis persisted, every linked mistake points to a persisted
\* habit, and a save that yields no id is followed by no link for that
\* cluster.
C1_NoLinkWithoutSavedHabit ==
    /\ [](/\ \A i \in DOMAIN linkCalls : linkCalls[i].habit_id \in HabitIds
          /\ \A m \in DOMAIN links : links[m] # 0 => links[m] \in HabitIds)
    /\ [][(pc = "afterSave" /\ new_serial_id = 0)
            => (links' = links /\ linkCalls' = linkCalls /\ pc' = "loop")]_vars

\* the run ended, a save was attempted and no link was ever made
C1_Witness ==
    /\ pc = "done"
    /\ "save" \in invoked
    /\ "link" \notin invoked
    /\ linkCalls = <<>>
    /\ habits = {}

\* C2: once the count check has been passed, a run that fetched fewer than
\* 20 mistakes has returned {0, n} without raising and has invoked no
\* collaborator (clustering, encoder fit, training, text generation, save,
\* link); a run that fetched 20 or more has invoked clustering.
C2_InsufficientData ==
    pc \notin {"clear", "fetch", "check"} =>
        IF all_mistakes < 20
        THEN /\ pc = "done"
             /\ result = [new_habits_found |-> 0, total_mistakes |-> all_mistakes]
             /\ invoked = {}
             /\ linkCalls = <<>>
        ELSE "cluster" \in invoked

C2_Witness ==
    /\ pc = "done"
    /\ all_mistakes = 15
    /\ result = [new_habits_found |-> 0, total_mistakes |-> 15]
    /\ invoked = {}

\* C3: per cluster the text-generation service is called at most 3 times;
\* the waits are 1 then 2, one after each of the first two failures and none
\* after the third; after 3 failures the output is the fixed fallback, the
\* run has not raised, the habit is handed to save_habit_analysis with the
\* fallback name, feedback and tip, and the loop moves on to the next label.
C3_BoundedRetryWithFallback ==
    /\ [](/\ llmCalls <= 3
          /\ llmFailures <= llmCalls
          /\ sleeps \in {<<>>, <<1>>, <<1, 2>>}
          /\ Len(sleeps) = (IF llmFailures < 2 THEN llmFailures ELSE 2)
          /\ llmFailures = 3 =>
                /\ pc \in {"save", "afterSave"}
                /\ llm_output =
                     [habit_name |-> "LLM Error Fallback",
                      feedback |-> "The AI coach could not generate personalized feedback. Please check the API status.",
                      tip |-> "Review the cluster manually."]
                /\ pc = "afterSave" =>
                     /\ lastSave.hdbscan_label = hdbscan_label
                     /\ lastSave.habit_name =
                          "LLM Error Fallback (H" \o ToString(hdbscan_label) \o ")"
                     /\ lastSave.coaching_feedback =
                          "The AI coach could not generate personalized feedback. Please check the API status."
                     /\ lastSave.improvement_tip = "Review the cluster manually."
                     /\ new_serial_id # 0 => lastSave \in habits)
    /\ [][(llmFailures = 3 /\ pc = "afterSave")
            => (pc' = "loop" /\ labelIdx' = labelIdx + 1)]_vars

\* three failed attempts, and the fallback habit is in the store
C3_Witness ==
    /\ pc = "afterSave"
    /\ llmCalls = 3
    /\ llmFailures = 3
    /\ sleeps = <<1, 2>>
    /\ new_serial_id # 0
    /\ \E h \in habits : /\ h.id = new_serial_id
                         /\ h.coaching_feedback = FALLBACK.feedback

\* C4: an attempt's result is accepted only if it has all of habit_name,
\* feedback and tip: whatever reaches the save step is a complete
\* three-field response or the complete fallback, and no saved habit carries
\* a filled-in default.
C4_OnlyCompleteResponsesAccepted ==
    /\ pc \in {"save", "afterSave"} =>
          DOMAIN llm_output = {"habit_name", "feedback", "tip"}
    /\ \A h \in habits :
          /\ h.coaching_feedback # "No detailed feedback generated."
          /\ h.improvement_tip # "No specific tip provided."

\* C5: get_mistake_type follows the inclusive thresholds 300 / 100 / 50
\* exactly, gives equal results for equal losses, and its severity does not
\* decrease when the loss increases.
Severity(t) ==
    CASE t = "Blunder" -> 3
      [] t = "Mistake" -> 2
      [] t = "Inaccuracy" -> 1
      [] OTHER -> 0

ByThresholds(cpl, t) ==
    /\ t \in {"Blunder", "Mistake", "Inaccuracy", "Good"}
    /\ t = "Blunder" <=> cpl >= 300
    /\ t = "Mistake" <=> (100 <= cpl /\ cpl < 300)
    /\ t = "Inaccuracy" <=> (50 <= cpl /\ cpl < 100)
    /\ t = "Good" <=> cpl < 50

C5_ThresholdsExactAndMonotone ==
    tpc = "classified" =>
        /\ ByThresholds(pcpl, ptype)
        /\ ByThresholds(tcpl, ttype)
        /\ pcpl = tcpl => ptype = ttype
        /\ pcpl <= tcpl => Severity(ptype) <= Severity(ttype)

C5_Witness ==
    /\ tpc = "classified"
    /\ pcpl = 299 /\ ptype = "Mistake"
    /\ tcpl = 300 /\ ttype = "Blunder"

\* C6: every record in analyze_game_fully's output has cpl >= 50 and a
\* mistake_type among Inaccuracy / Mistake / Blunder that is the threshold
\* class of its cpl; a record is appended only by the classification step,
\* with cpl = max(0, best_score - user_move_score), and not at all when that
\* value is below 50.
C6_RecordsFollowThresholds ==
    /\ [](\A i \in DOMAIN mistakes_list :
             /\ mistakes_list[i].cpl >= 50
             /\ mistakes_list[i].mistake_type \in {"Inaccuracy", "Mistake", "Blunder"}
             /\ ByThresholds(mistakes_list[i].cpl, mistakes_list[i].mistake_type))
    /\ [][LET diff == best_score - user_move_score
              loss == IF diff > 0 THEN diff ELSE 0
          IN  IF gpc = "classify" /\ loss >= 50
              THEN /\ Len(mistakes_list') = Len(mistakes_list) + 1
                   /\ SubSeq(mistakes_list', 1, Len(mistakes_list)) = mistakes_list
                   /\ mistakes_list'[Len(mistakes_list')].cpl = loss
              ELSE mistakes_list' = mistakes_list]_vars

\* a game analysed to the end with a boundary Blunder and a boundary
\* Inaccuracy on record
C6_Witness ==
    /\ gpc = "done"
    /\ \E i \in DOMAIN mistakes_list :
          mistakes_list[i].cpl = 300 /\ mistakes_list[i].mistake_type = "Blunder"
    /\ \E i \in DOMAIN mistakes_list :
          mistakes_list[i].cpl = 50 /\ mistakes_list[i].mistake_type = "Inaccuracy"

\* C7: every trigger handed to text generation and to save_habit_analysis,
\* and every trigger of a saved habit, has a coefficient above 0.1 (10
\* hundredths); a feature whose coefficient is 0.1 or less is in no trigger
\* map.
C7_TriggersAboveFloor ==
    /\ \A f \in DOMAIN triggers : triggers[f] > 10
    /\ \A f \in DOMAIN lastSave.triggers : lastSave.triggers[f] > 10
    /\ \A h \in habits : \A f \in DOMAIN h.triggers : h.triggers[f] > 10
    /\ pc \in {"llm", "save", "afterSave"} =>
          \A i \in DOMAIN FEATURE_NAMES :
             /\ coefficients[i] <= 10 => FEATURE_NAMES[i] \notin DOMAIN triggers
             /\ coefficients[i] > 10 =>
                   /\ FEATURE_NAMES[i] \in DOMAIN triggers
                   /\ triggers[FEATURE_NAMES[i]] = coefficients[i]
    /\ pc = "afterSave" => lastSave.triggers = triggers

\* a habit saved while one coefficient sits exactly on the floor
C7_Witness ==
    /\ pc = "afterSave"
    /\ new_serial_id # 0
    /\ coefficients = <<10, 11>>
    /\ \E h \in habits : /\ h.id = new_serial_id
                         /\ DOMAIN h.triggers = {FEATURE_NAMES[2]}

\* C8: when no coefficient of the fitted model exceeds 0.1 the trigger step
\* goes straight to the next label: no text-generation call, no save, no
\* link, no change of the habit count; text generation, save and link are
\* only ever reached with a coefficient above 0.1.
C8_NoTriggersNoHabit ==
    /\ [](pc \in {"llm", "save", "afterSave"} =>
             \E i \in DOMAIN coefficients : coefficients[i] > 10)
    /\ [][(pc = "extract" /\ \A i \in DOMAIN coefficients : coefficients[i] <= 10)
            => /\ pc' = "loop"
               /\ labelIdx' = labelIdx + 1
               /\ invoked' = invoked
               /\ habits' = habits
               /\ links' = links
               /\ linkCalls' = linkCalls
               /\ opLog' = opLog
               /\ new_habit_count' = new_habit_count]_vars

\* the first of two clusters was trained and passed over without any
\* text-generation call
C8_Witness ==
    /\ pc = "loop"
    /\ labelIdx = 2
    /\ Len(labelOrder) = 2
    /\ "train" \in invoked
    /\ "llm" \notin invoked
    /\ new_habit_count = 0
    /\ habits = {}

\* C9: while a cluster is processed its control set is the complement of the
\* cluster in the fetched set (the other clusters and the noise); training,
\* text generation, save and link happen only with a non-empty control set,
\* and with an empty one the cluster is passed over with nothing invoked,
\* saved or linked.
C9_ControlIsComplement ==
    /\ [](InCluster =>
             /\ cluster_df = {m \in 1..all_mistakes : habit_id[m] = hdbscan_label}
             /\ control_df = (1..all_mistakes) \ cluster_df
             /\ pc # "find" => control_df # {})
    /\ [][(pc = "find" /\ cluster_df = 1..all_mistakes)
            => /\ pc' = "loop"
               /\ labelIdx' = labelIdx + 1
               /\ invoked' = invoked
               /\ habits' = habits
               /\ links' = links
               /\ linkCalls' = linkCalls
               /\ new_habit_count' = new_habit_count]_vars

\* one cluster covered the whole population and the run ended with no model
\* trained and no habit
C9_Witness ==
    /\ pc = "done"
    /\ all_mistakes >= 20
    /\ \A m \in 1..all_mistakes : habit_id[m] = 0
    /\ invoked = {"cluster", "fit"}
    /\ result = [new_habits_found |-> 0, total_mistakes |-> all_mistakes]
    /\ habits = {}

\* C10: when clustering labelled every fetched mistake as noise the run has
\* returned {0, n} without raising, and nothing but clustering was invoked:
\* no encoder fit, no training, no text generation, no save, no link.
C10_AllNoise ==
    (/\ pc \notin {"clear", "fetch", "check", "separate"}
     /\ all_mistakes >= 20
     /\ \A m \in 1..all_mistakes : habit_id[m] = -1)
    => /\ pc = "done"
       /\ result = [new_habits_found |-> 0, total_mistakes |-> all_mistakes]
       /\ invoked = {"cluster"}
       /\ preprocessor = "unset"
       /\ linkCalls = <<>>
       /\ habits = {}

C10_Witness ==
    /\ pc = "done"
    /\ all_mistakes = 20
    /\ \A m \in 1..20 : habit_id[m] = -1
    /\ result = [new_habits_found |-> 0, total_mistakes |-> 20]

\* C11: clearing the prior analysis is the first persistence operation of
\* every run: it precedes the fetch and every save and link, it happens
\* once, and every return - the early ones too - has it first in the log.
C11_ClearIsFirst ==
    /\ pc # "clear" => Len(opLog) >= 1
    /\ opLog # <<>> => opLog[1] = "clear"
    /\ \A i \in DOMAIN opLog :
          /\ opLog[i] \in {"fetch", "save", "link"} => i > 1
          /\ opLog[i] = "clear" => i = 1
          /\ opLog[i] \in {"save", "link"} => i > 2 /\ opLog[2] = "fetch"
    /\ pc \in {"done", "raised"} =>
          Len(opLog) >= 2 /\ opLog[1] = "clear" /\ opLog[2] = "fetch"
    /\ pc = "clear" => linkCalls = <<>> /\ invoked = {}

\* a completed run that saved and linked, after its clear and fetch
C11_Witness ==
    /\ pc = "done"
    /\ Len(opLog) >= 4
    /\ opLog[1] = "clear"
    /\ opLog[2] = "fetch"
    /\ opLog[3] = "save"
    /\ opLog[4] = "link"

\* C12: the encoder is fitted at most once in a run and, in every run that
\* reaches a cluster, exactly once, on all fetched rows and before any
\* cluster step; through the whole loop it stays that one fitted encoder,
\* and every cluster reads the same feature-name list from it.
C12_EncoderFitOnceAndShared ==
    /\ fitCount <= 1
    /\ pc \in {"clear", "fetch", "check", "separate"} =>
          /\ fitCount = 0
          /\ invoked \cap {"transform", "train", "llm", "save", "link"} = {}
    /\ (pc \in {"loop", "find", "extract", "llm", "save", "afterSave",
                 "raised"}
           \/ invoked \cap {"transform", "train", "llm", "save", "link"} # {}) =>
          /\ fitCount = 1
          /\ preprocessor = "fitted"
          /\ fittedOn = 1..all_mistakes
    /\ feature_names_out # <<>> =>
          /\ fittedOn = 1..all_mistakes
          /\ feature_names_out = get_feature_names_out(1..all_mistakes)
    /\ pc \in {"extract", "llm", "save", "afterSave"} =>
          /\ feature_names_out # <<>>
          /\ DOMAIN coefficients = DOMAIN feature_names_out

\* the second cluster of a run with noise rows reads the feature names
C12_Witness ==
    /\ pc = "extract"
    /\ labelIdx = 2
    /\ fitCount = 1
    /\ feature_names_out # <<>>
    /\ \E m \in 1..all_mistakes : habit_id[m] = -1

C14_FitFailureAbortsRun ==
    [][ /\ preprocessor' = "failed" =>
             /\ pc' = "done"
             /\ result' = [new_habits_found |-> 0,
                           total_mistakes |-> all_mistakes']
             /\ labelOrder' = <<>>
             /\ invoked' = {"cluster", "fit"}
             /\ habits' = {}
             /\ linkCalls' = <<>>
             /\ \A m \in DOMAIN links' : links'[m] = 0
             /\ \E m \in 1..all_mistakes' : habit_id'[m] # -1
        /\ (pc = "find" /\ control_df # {} /\ pc' # "extract") =>
             /\ pc' = "loop"
             /\ labelIdx' = labelIdx + 1
             /\ result' = result
             /\ <<habits, links, linkCalls, new_habit_count>>' =
                   <<habits, links, linkCalls, new_habit_count>>
             /\ <<labelOrder, habit_id, preprocessor, fittedOn>>' =
                   <<labelOrder, habit_id, preprocessor, fittedOn>>
      ]_vars

\* two clusters were found and the fit failed
C14_Witness ==
    /\ preprocessor = "failed"
    /\ pc = "done"
    /\ \E a, b \in 1..all_mistakes :
          habit_id[a] = 0 /\ habit_id[b] = 1

\* C15: a failing evaluation call - the top-2 request or the re-evaluation
\* of the position after the move - never ends analyze_game_fully: the ply
\* is skipped without a record and without a second try, the board moves
\* on by that ply, and the function returns at the end of the game.
C15_OracleFailureSkipsPly ==
    /\ gpc # "raised"
    /\ oracleCalls <= 2
    /\ gpc = "ply" => boardPly = moveIdx - 1
    /\ (gpc = "done" /\ user_color # "none") =>
          moveIdx > gameLen /\ boardPly = gameLen

\* C16: every return of main_analysis_pipeline carries the number of
\* mistakes fetched and the number of habits saved in the run, every one
\* of those habits has all members of its cluster linked to it, and the
\* number reported is at most the number of non-noise clusters.
C16_ResultCountsLinkedHabits ==
    pc = "done" =>
        /\ DOMAIN result = {"new_habits_found", "total_mistakes"}
        /\ result.total_mistakes = all_mistakes
        /\ result.new_habits_found = Cardinality(habits)
        /\ \A h \in habits :
              \A m \in DOMAIN habit_id :
                 habit_id[m] = h.hdbscan_label => links[m] = h.id
        /\ result.new_habits_found <=
              Cardinality({habit_id[m] : m \in DOMAIN habit_id} \ {-1})

\* C17: in the summary of any cluster each of the four frequency lists has
\* at most 3 entries, no count is larger than the cluster size, the counts
\* of a list never increase from one entry to the next, and
\* total_mistakes_in_habit is the number of rows of the cluster.
C17_SummaryListsBounded ==
    spc = "summarized" =>
        /\ summary.total_mistakes_in_habit = Len(summary_df)
        /\ \A col \in {"mistake_type", "game_phase", "piece_moved",
                        "mistake_category"} :
              LET list == top_counts[col]
              IN  /\ Len(list) <= 3
                  /\ \A i \in DOMAIN list :
                        /\ list[i].count >= 1
                        /\ list[i].count <= summary.total_mistakes_in_habit
                        /\ list[i].count =
                              Cardinality({k \in DOMAIN summary_df :
                                             summary_df[k][col] = list[i].val})
                  /\ \A i, j \in DOMAIN list :
                        i < j => list[i].count >= list[j].count
        /\ Len(summary.top_mistake_type) = Len(top_counts["mistake_type"])
        /\ Len(summary.top_game_phase) = Len(top_counts["game_phase"])
        /\ Len(summary.top_piece_moved) = Len(top_counts["piece_moved"])
        /\ Len(summary.top_mistake_category) =
              Len(top_counts["mistake_category"])

\* a cluster of five rows moving four different pieces: the list is cut
\* to three entries with unequal counts
C17_Witness ==
    /\ spc = "summarized"
    /\ Len(summary_df) = 5
    /\ Cardinality({summary_df[k].piece_moved : k \in DOMAIN summary_df}
                     \ {"<null>"}) = 4
    /\ summary.top_piece_moved = <<"KNIGHT (2)", "PAWN (1)", "ROOK (1)">>

\* C18: the dissimilarity matrix over the 2 scaled numeric and the 14
\* categorical columns is symmetric, has a zero diagonal and has every
\* entry between 0 and 1, whatever the records are.
C18_GowerMatrixWellFormed ==
    wpc = "computed" =>
        /\ DOMAIN gower_matrix = DOMAIN records
        /\ \A i, j \in DOMAIN gower_matrix :
              LET e == gower_matrix[i][j]
              IN  /\ e = gower_matrix[j][i]
                  /\ e[2] > 0
                  /\ 0 <= e[1]
                  /\ e[1] <= e[2]
                  /\ i = j => e[1] = 0

\* three records, two of which differ in every column and lie at the two
\* ends of both numeric columns: their dissimilarity is 1
C18_Witness ==
    /\ wpc = "computed"
    /\ Len(records) = 3
    /\ \E i, j \in DOMAIN gower_matrix :
          /\ gower_matrix[i][j][1] = gower_matrix[i][j][2]
          /\ df_features[i]["cpl"] < 0
          /\ records[i]["piece_moved"] # records[j]["piece_moved"]
    /\ \E i, j \in DOMAIN gower_matrix :
          /\ i # j
          /\ 0 < gower_matrix[i][j][1]
          /\ gower_matrix[i][j][1] < gower_matrix[i][j][2]

\* C19: the category is Missed_Tactic whenever there is a second variation
\* and the best score exceeds the second-best by more than 150 - also
\* when the move hangs a piece, and not when the gap is exactly 150;
\* otherwise Hanging_Piece when is_move_a_hang holds; otherwise
\* Positional_Error; it is always one of the three.
C19_CategoryFirstMatchWins ==
    cpc = "categorised" =>
        LET tactic == /\ Len(cat_analysis) > 1
                      /\ cat_analysis[1] - cat_analysis[2] > 150
        IN  /\ category \in {"Missed_Tactic", "Hanging_Piece",
                              "Positional_Error"}
            /\ tactic => category = "Missed_Tactic"
            /\ (~tactic /\ hang = TRUE) => category = "Hanging_Piece"
            /\ (~tactic /\ hang = FALSE) => category = "Positional_Error"

\* a gap of exactly 150 on a move that hangs a piece: Hanging_Piece
C19_Witness ==
    /\ cpc = "categorised"
    /\ Len(cat_analysis) = 2
    /\ cat_analysis[1] - cat_analysis[2] = 150
    /\ hang = TRUE
    /\ category = "Hanging_Piece"

\* C20: is_move_a_hang is true exactly when the destination is attacked
\* by an opponent piece and either no piece of the mover's side other
\* than the moved piece defends it or the moved piece is worth more than
\* the cheapest attacker; it is false when the destination is not
\* attacked.
C20_HangIffAttackedAndLost ==
    (cpc # "input" /\ moved_piece # "none") =>
        hang = (/\ opponent_attackers # {}
                /\ \/ ~other_defenders
                   \/ \E a \in opponent_attackers :
                         /\ \A b \in opponent_attackers :
                               PIECE_VALUES[a] <= PIECE_VALUES[b]
                         /\ PIECE_VALUES[moved_piece] > PIECE_VALUES[a])

\* C21: get_king_safety(board, color) is In_Check exactly when the king of
\* that colour is in check, otherwise Exposed exactly when more than 3
\* squares next to that king are attacked by the other colour, otherwise
\* Safe; so king_opponent_status is In_Check only if the opponent's king
\* is in check, whatever holds for the subject's own king.
C21_KingSafetyOfGivenColor ==
    LET Expected(color) ==
            IF in_check[color] THEN "In_Check"
            ELSE IF adjacent_attacked[color] > 3 THEN "Exposed"
            ELSE "Safe"
    IN  /\ kpc \in {"self", "both"} =>
              king_self_safety = Expected(king_turn)
        /\ kpc = "both" =>
              king_opponent_status = Expected(Other(king_turn))

\* C22: within one run every pending mistake is linked to at most one
\* habit (no two link calls of the run name the same mistake), a mistake is
\* linked only to the habit saved for the cluster it was labelled with, and
\* a mistake labelled noise (-1) is never linked to any habit.
C22_LinksFollowLabels ==
    /\ \A i, j \in DOMAIN linkCalls :
          i # j => linkCalls[i].mistake_ids \cap linkCalls[j].mistake_ids = {}
    /\ \A i \in DOMAIN linkCalls :
          /\ linkCalls[i].mistake_ids \subseteq DOMAIN habit_id
          /\ \A m \in linkCalls[i].mistake_ids : habit_id[m] # -1
          /\ \E h \in habits :
                /\ h.id = linkCalls[i].habit_id
                /\ \A m \in linkCalls[i].mistake_ids :
                      habit_id[m] = h.hdbscan_label
    /\ pc # "clear" =>
          \A m \in DOMAIN links :
              links[m] # 0 =>
                  /\ m \in DOMAIN habit_id
                  /\ habit_id[m] # -1
                  /\ \E h \in habits :
                        h.id = links[m] /\ h.hdbscan_label = habit_id[m]

\* the run ended after linking two clusters to two different habits while
\* some mistakes were labelled noise and stayed unlinked
C22_Witness ==
    /\ pc = "done"
    /\ Len(linkCalls) = 2
    /\ \E m1, m2, m3 \in DOMAIN links :
          /\ links[m1] # 0 /\ links[m2] # 0 /\ links[m1] # links[m2]
          /\ habit_id[m1] # habit_id[m2]
          /\ habit_id[m3] = -1 /\ links[m3] = 0

\* C23: any two habits saved in the same run have different display names,
\* also when the text-generation service returned the same habit_name for
\* both or both fell back to the placeholder: the saved name is the
\* returned name followed by " (H<label>)" and the labels of two saved
\* habits differ, so the unique (subject, name) constraint of the habits
\* store is not violated by two habits of one run.
C23_SavedNamesDistinct ==
    /\ \A h1, h2 \in habits :
          h1.id # h2.id =>
              /\ h1.hdbscan_label # h2.hdbscan_label
              /\ h1.habit_name # h2.habit_name
    /\ pc # "clear" =>
          \A h \in habits :
              \E suggested \in {"Rushed Endgame Trades", "LLM Error Fallback",
                                "Unnamed Habit"} :
                  h.habit_name =
                      suggested \o " (H" \o ToString(h.hdbscan_label) \o ")"

\* the run ended with two saved habits for which the same name was
\* suggested: the service's name twice, or the placeholder twice
C23_Witness ==
    /\ pc = "done"
    /\ \E h1, h2 \in habits :
          /\ h1.id # h2.id
          /\ \E suggested \in {"Rushed Endgame Trades", "LLM Error Fallback"} :
                /\ h1.habit_name =
                      suggested \o " (H" \o ToString(h1.hdbscan_label) \o ")"
                /\ h2.habit_name =
                      suggested \o " (H" \o ToString(h2.hdbscan_label) \o ")"

\* C24: in analyze_game_fully the board is advanced by exactly one ply per
\* mainline move on every branch: at the head of every iteration the board
\* holds as many moves as iterations have finished, the push made for the
\* re-evaluation is undone before the features are computed, every record's
\* prior position, move number and features are those of the position just
\* before the subject's move, and the records are in ply order.
C24_OnePlyPerMove ==
    /\ gpc \in {"ply", "reeval", "classify"} => boardPly = moveIdx - 1
    /\ gpc \in {"reeval", "reevalPushed", "classify"} => prior_fen = moveIdx - 1
    /\ gpc = "reevalPushed" => boardPly = moveIdx
    /\ (gpc = "done" /\ user_color # "none") =>
          (boardPly = gameLen /\ moveIdx = gameLen + 1)
    /\ \A i \in DOMAIN mistakes_list :
          LET r == mistakes_list[i]
              before == [ply |-> r.prior_fen, from_square_empty |-> FALSE]
          IN  /\ r.prior_fen \in 0..(moveIdx - 2)
              /\ (IF r.prior_fen % 2 = 0 THEN "white" ELSE "black") = user_color
              /\ r.player_color = user_color
              /\ r.move_number = (r.prior_fen \div 2) + 1
              /\ r.features_on = before
              /\ r.pinned_on = before
    /\ \A i, j \in DOMAIN mistakes_list :
          i < j => mistakes_list[i].prior_fen < mistakes_list[j].prior_fen

\* a four-move game analysed to the end for Black: both of Black's moves
\* are on record, the last one after a re-evaluation (two requests)
C24_Witness ==
    /\ gpc = "done"
    /\ user_color = "black"
    /\ gameLen = 4
    /\ oracleCalls = 2
    /\ Len(mistakes_list) = 2
    /\ mistakes_list[1].prior_fen = 1
    /\ mistakes_list[2].prior_fen = 3

====
